---- MODULE Spec2Model ----
(***************************************************************************)
(* Thread-affinity and asynchronous-dispatch bridge of browser-window:     *)
(* the dispatch trampoline (core/src/application/c.rs), Runtime::_run, the *)
(* task waker and driver loop (src/application.rs), the eval_js result     *)
(* channel and the window handles (src/browser.rs), over an abstract       *)
(* native event loop and window.                                           *)
(***************************************************************************)
EXTENDS Integers, Sequences, FiniteSets, TLC

\* ---------------------------------------------------------------- bounds
MaxUnits == 2          \* dispatch calls made through ApplicationImpl::dispatch
MaxWakes == 2          \* calls of wake on the task's waker
MaxStrLen == 1         \* bytes of a native C string before its terminator
MaxDeliveries == 2     \* trampoline invocations per token under SpecRedeliver
MaxWinOps == 2         \* navigate and exec_js calls the caller makes on its window handle

\* ---------------------------------------------------------------- constants of the model
Threads == {"gui", "t1"}
OwningThread == "gui"
NullPtr == 0
AppPtr == 1            \* the one engine of the process
Values == {7, 8}       \* return values of dispatched closures
ExitCodes == {0, 3}
Units == 1..MaxUnits
WinPtr == 1            \* the one browser window
TaskTok == 0           \* token of the task's WakerData (unit tokens are 1..MaxUnits)
Bytes == {0, 97, 255}  \* NUL, an ASCII byte, a byte that is never valid UTF-8
ReplacementChar == 65533
ErrCodes == {1, 2}
ErrData == {97, 255}

VARIABLES
    loopState,   \* native event loop: "idle", "running", "exiting", "returned", "finished"
    exitCode,    \* code handed to exit
    runRet,      \* <<value Runtime::_run returned>>, empty before that
    mode,        \* entry point of the program: "run" (Runtime::run) or "spawn" (Runtime::spawn)
    prog,        \* what the user's code does with its handles: "dispatch", "task", "js" or "win"
    ready,       \* box of the on_ready closure: "none", "alloc", "freed"
    queue,       \* native dispatch queue, FIFO of [fn, tok, app]
    delivered,   \* entries the native layer has already delivered
    nextUnit,    \* next DispatchData box to allocate
    unit,        \* per dispatch call: box, closure and call result
    chan,        \* per dispatch call: the future adapter's channel and receiver
    crash,       \* "none", "panic" (unwinding into native code), "ub" (use of freed memory caught)
    task,        \* the WakerData of the spawned task and what happened to it
    polling,     \* threads that are inside poll_future right now
    wakes,       \* calls of wake made so far
    js,          \* the eval_js call: callback box, channel, caller
    win,         \* the browser window: the caller's handle, native calls, backing object
    rt           \* Runtime::_run: its local exit_code and what it called when

vars == <<loopState, exitCode, runRet, mode, prog, ready, queue, delivered, nextUnit,
          unit, chan, crash, task, polling, wakes, js, win, rt>>

\* ---------------------------------------------------------------- native layer (abstract)
\* cbw_Application_dispatch / bw_Application_dispatch: accepts the callback
\* while the event loop runs, rejects it otherwise.
cbw_Application_dispatch(fn, tok, app) ==
    IF loopState = "running" THEN 1 ELSE 0

Enqueue(fn, tok, app) ==
    IF cbw_Application_dispatch(fn, tok, app) # 0
    THEN Append(queue, [fn |-> fn, tok |-> tok, app |-> app])
    ELSE queue

\* ---------------------------------------------------------------- dispatch bridge (c.rs)
NoUnit == [box |-> "none", frees |-> 0, func |-> "none", data |-> 0,
           from |-> "none", ret |-> FALSE, calls |-> 0,
           runs |-> 0, ranOn |-> {}, handle |-> {}]

NoChan == [st |-> "none", rx |-> "none", val |-> 0, got |-> 0]

\* `cbw_Application_dispatch( .. ) != 0`
DispatchResult_inverted(native_ret) == native_ret = 0
DispatchResult(native_ret) == native_ret # 0


NoTask == [st |-> "none", frees |-> 0, spawn |-> "none", handle |-> NullPtr,
           polls |-> 0, polledOn |-> {}, stale |-> 0]

NoResult == [tag |-> "none", s |-> <<>>]
NullErr == [null |-> TRUE, code |-> 0, data |-> 0]

NoJs == [st |-> "none", api |-> "none", cb |-> "none", cbFrees |-> 0,
         tx |-> "none", rx |-> "none", caller |-> "idle", writes |-> 0, reads |-> 0,
         result |-> <<>>, error |-> NullErr, val |-> NoResult, out |-> NoResult]

\* the window before the program touched it: open, one handle in the caller's hands
NoWin == [held |-> "none", closing |-> "none", closed |-> FALSE, freed |-> FALSE,
          released |-> 0, drops |-> 0, ops |-> 0, cbs |-> 0,
          from |-> {}, opsOn |-> {}, dangling |-> 0]

NoRt == [readyRuns |-> 0, readyOn |-> {}, readyIn |-> {}, exitBy |-> "none",
         exit_code |-> 0, finishCalls |-> 0, finishIn |-> {}, returns |-> 0]

Init ==
    /\ loopState = "idle"
    /\ exitCode = 0
    /\ runRet = <<>>
    /\ mode \in {"run", "spawn"}
    /\ prog \in IF mode = "spawn" THEN {"task"} ELSE {"dispatch", "task", "js", "win"}
    /\ ready = "none"
    /\ queue = <<>>
    /\ delivered = {}
    /\ nextUnit = 1
    /\ unit = [u \in Units |-> NoUnit]
    /\ chan = [u \in Units |-> NoChan]
    /\ crash = "none"
    /\ task = NoTask
    /\ polling = {}
    /\ wakes = 0
    /\ js = NoJs
    /\ win \in IF prog \in {"js", "win"}
               THEN {[NoWin EXCEPT !.held = k] : k \in {"Browser", "BrowserThreaded"}}
               ELSE {NoWin}
    /\ rt = NoRt

Alive == crash = "none"
GuiIdle == OwningThread \notin polling
\* the user holds an application handle once on_ready has handed it out
HandleOut == ready = "freed"

\* ---------------------------------------------------------------- future adapter (DispatchFuture)
\* construction: one channel, one dispatch; a rejected closure is disposed of,
\* which drops the sender it captured
DispatchFuture_new(accepted) ==
    [st |-> IF accepted THEN "open" ELSE "closed", rx |-> "awaiting", val |-> 0, got |-> 0]

\* the dispatched closure: run F, send its value; a dropped receiver is tolerated
DispatchFuture_closure(c, r) ==
    IF c.st = "open"
    THEN [c EXCEPT !.st = IF c.rx = "dropped" THEN "closed" ELSE "sent", !.val = r]
    ELSE c

\* ---------------------------------------------------------------- ApplicationImpl::dispatch
ApplicationImpl_dispatch(t, kind, v) ==
    LET u == nextUnit
        native_ret == cbw_Application_dispatch("invocation_handler", u, AppPtr)
        result == DispatchResult(native_ret)
    IN  /\ Alive /\ HandleOut /\ prog = "dispatch"
        /\ nextUnit <= MaxUnits
        /\ nextUnit' = nextUnit + 1
        /\ unit' = [unit EXCEPT ![u] = [NoUnit EXCEPT !.box = "alloc", !.func = kind,
                                          !.data = v, !.from = t, !.ret = result]]
        /\ queue' = Enqueue("invocation_handler", u, AppPtr)
        /\ chan' = [chan EXCEPT ![u] = IF kind = "await" THEN DispatchFuture_new(result) ELSE @]
        /\ UNCHANGED <<loopState, exitCode, runRet, mode, prog, ready, delivered, crash,
                       task, polling, wakes, js, win, rt>>

\* ---------------------------------------------------------------- invocation_handler
\* `ApplicationImpl { inner: _handle }`
invocation_handler_handle_null(_handle) == NullPtr
invocation_handler_handle(_handle) == _handle

\* `(data.func)( handle, data.data )`, then the box goes out of scope
invocation_handler_call_wrong_data(u, th, handle) ==
    /\ unit' = [unit EXCEPT ![u].runs = @ + 1,
                            ![u].ranOn = @ \cup {th},
                            ![u].handle = @ \cup {handle},
                            ![u].calls = @ + 1,
                            ![u].box = "freed",
                            ![u].frees = @ + 1]
    /\ chan' = [chan EXCEPT ![u] = IF unit[u].func = "await"
                                    THEN DispatchFuture_closure(@, NullPtr) ELSE @]
    /\ crash' = crash

invocation_handler_call(u, th, handle) ==
    /\ unit' = [unit EXCEPT ![u].runs = @ + 1,
                            ![u].ranOn = @ \cup {th},
                            ![u].handle = @ \cup {handle},
                            ![u].calls = @ + 1,
                            ![u].box = "freed",
                            ![u].frees = @ + 1]
    /\ chan' = [chan EXCEPT ![u] = IF unit[u].func = "await"
                                    THEN DispatchFuture_closure(@, unit[u].data) ELSE @]
    /\ crash' = crash

invocation_handler(e, th) ==
    LET u == e.tok
        handle == invocation_handler_handle(e.app)
    IN  \/ /\ unit[u].box = "alloc"
           /\ invocation_handler_call(u, th, handle)
        \/ /\ unit[u].box = "freed"   \* Box::from_raw of a box that was already reclaimed
           /\ \/ invocation_handler_call(u, th, handle)
              \/ /\ crash' = "ub"
                 /\ unit' = [unit EXCEPT ![u].calls = @ + 1]
                 /\ chan' = chan

\* ---------------------------------------------------------------- Runtime::_run
Runtime_run_call ==
    /\ Alive /\ loopState = "idle"
    /\ loopState' = "running"
    /\ ready' = "alloc"
    /\ UNCHANGED <<exitCode, runRet, mode, prog, queue, delivered, nextUnit, unit, chan, crash,
                   task, polling, wakes, js, win, rt>>

\* Application::exit on the owning thread, ApplicationAsync::exit from any thread
Application_exit(t, c) ==
    /\ Alive /\ HandleOut /\ loopState = "running"
    /\ loopState' = "exiting"
    /\ exitCode' = c
    /\ rt' = [rt EXCEPT !.exitBy = IF t = OwningThread THEN "exit" ELSE "exit_async"]
    /\ UNCHANGED <<runRet, mode, prog, ready, queue, delivered, nextUnit, unit, chan, crash,
                   task, polling, wakes, js, win>>

bw_Application_run_returns ==
    /\ Alive /\ loopState = "exiting" /\ GuiIdle
    /\ loopState' = "returned"
    /\ rt' = [rt EXCEPT !.exit_code = exitCode]     \* `let exit_code = bw_Application_run( .. )`
    /\ UNCHANGED <<exitCode, runRet, mode, prog, ready, queue, delivered, nextUnit, unit, chan, crash,
                   task, polling, wakes, js, win>>

\* `bw_Application_finish( self.handle.ffi_handle )`
Runtime_run_finish ==
    /\ Alive /\ loopState = "returned"
    /\ loopState' = "finished"
    /\ rt' = [rt EXCEPT !.finishCalls = @ + 1, !.finishIn = @ \cup {loopState}]
    /\ UNCHANGED <<exitCode, runRet, mode, prog, ready, queue, delivered, nextUnit, unit, chan,
                   crash, task, polling, wakes, js, win>>

\* `return exit_code`
Runtime_run_return_before_finish ==
    /\ Alive /\ loopState = "returned" /\ runRet = <<>>
    /\ runRet' = <<rt.exit_code>>
    /\ rt' = [rt EXCEPT !.returns = @ + 1]
    /\ UNCHANGED <<loopState, exitCode, mode, prog, ready, queue, delivered, nextUnit, unit, chan,
                   crash, task, polling, wakes, js, win>>

Runtime_run_return ==
    /\ Alive /\ loopState = "finished" /\ runRet = <<>>
    /\ runRet' = <<rt.exit_code>>
    /\ rt' = [rt EXCEPT !.returns = @ + 1]
    /\ UNCHANGED <<loopState, exitCode, mode, prog, ready, queue, delivered, nextUnit, unit, chan,
                   crash, task, polling, wakes, js, win>>

\* ---------------------------------------------------------------- native delivery
CanDeliver(fn) ==
    /\ Alive /\ loopState = "running" /\ GuiIdle /\ ready = "freed"
    /\ queue # <<>> /\ Head(queue).fn = fn

Deliver_invocation ==
    /\ CanDeliver("invocation_handler")
    /\ invocation_handler(Head(queue), OwningThread)
    /\ queue' = Tail(queue)
    /\ delivered' = delivered \cup {Head(queue)}
    /\ UNCHANGED <<loopState, exitCode, runRet, mode, prog, ready, nextUnit, task, polling, wakes, js, win, rt>>

\* a native layer that invokes the trampoline again with a token it already delivered
Redeliver_invocation ==
    /\ Alive /\ loopState = "running" /\ GuiIdle
    /\ \E e \in delivered :
          /\ e.fn = "invocation_handler"
          /\ unit[e.tok].calls < MaxDeliveries
          /\ invocation_handler(e, OwningThread)
    /\ UNCHANGED <<loopState, exitCode, runRet, mode, prog, ready, queue, delivered, nextUnit,
                   task, polling, wakes, js, win, rt>>

\* ---------------------------------------------------------------- awaiting a DispatchFuture
DispatchFuture_poll(u) ==
    /\ Alive /\ chan[u].rx = "awaiting" /\ chan[u].st \in {"sent", "closed"}
    /\ chan' = [chan EXCEPT ![u].rx = IF chan[u].st = "sent" THEN "resolved" ELSE "failed",
                            ![u].got = IF chan[u].st = "sent" THEN chan[u].val ELSE @]
    /\ UNCHANGED <<loopState, exitCode, runRet, mode, prog, ready, queue, delivered, nextUnit,
                   unit, crash, task, polling, wakes, js, win, rt>>

DispatchFuture_drop(u) ==
    /\ Alive /\ chan[u].rx = "awaiting"
    /\ chan' = [chan EXCEPT ![u].rx = "dropped"]
    /\ UNCHANGED <<loopState, exitCode, runRet, mode, prog, ready, queue, delivered, nextUnit,
                   unit, crash, task, polling, wakes, js, win, rt>>

\* ---------------------------------------------------------------- task waker / driver loop
\* poll_future up to and including the call of the future's poll
poll_future_begin(th) ==
    \/ /\ task.st = "alive"
       /\ task' = [task EXCEPT !.polls = @ + 1, !.polledOn = @ \cup {th}]
       /\ polling' = polling \cup {th}
       /\ crash' = crash
    \/ /\ task.st = "released"     \* (*data).future of a WakerData that was freed
       /\ \/ /\ task' = [task EXCEPT !.stale = @ + 1, !.polledOn = @ \cup {th}]
             /\ polling' = polling \cup {th}
             /\ crash' = crash
          \/ /\ crash' = "ub"
             /\ UNCHANGED <<task, polling, win, rt>>

\* `match result`: Ready frees the WakerData, Pending keeps it
poll_future_release_never(t, result) == t
poll_future_release(t, result) ==
    IF result = "Ready"
    THEN [t EXCEPT !.st = "released", !.frees = @ + 1]
    ELSE t

poll_future_end(th, result) ==
    /\ Alive /\ th \in polling
    /\ polling' = polling \ {th}
    /\ task' = poll_future_release(task, result)
    /\ UNCHANGED <<loopState, exitCode, runRet, mode, prog, ready, queue, delivered, nextUnit,
                   unit, chan, crash, wakes, js, win, rt>>

NewTask(kind, th) ==
    [NoTask EXCEPT !.st = "alive", !.spawn = kind, !.handle = AppPtr,
                   !.polls = 1, !.polledOn = {th}]

\* ffi_ready_handler: reclaim the on_ready box and run it; Runtime::spawn's
\* on_ready allocates the WakerData and makes the first poll
ffi_ready_handler ==
    /\ Alive /\ loopState = "running" /\ ready = "alloc"
    /\ ready' = "freed"
    /\ rt' = [rt EXCEPT !.readyRuns = @ + 1, !.readyOn = @ \cup {OwningThread},
                        !.readyIn = @ \cup {loopState}]
    /\ IF mode = "spawn"
       THEN /\ task' = NewTask("Runtime", OwningThread)
            /\ polling' = polling \cup {OwningThread}
       ELSE UNCHANGED <<task, polling>>
    /\ UNCHANGED <<loopState, exitCode, runRet, mode, prog, queue, delivered, nextUnit,
                   unit, chan, crash, wakes, js, win>>

\* Application::spawn: the handle is thread-affine, the caller is the owning thread
Application_spawn ==
    /\ Alive /\ HandleOut /\ prog = "task" /\ task.st = "none"
    /\ loopState = "running" /\ GuiIdle
    /\ task' = NewTask("Application", OwningThread)
    /\ polling' = polling \cup {OwningThread}
    /\ UNCHANGED <<loopState, exitCode, runRet, mode, prog, ready, queue, delivered, nextUnit,
                   unit, chan, crash, wakes, js, win, rt>>

\* ApplicationAsync::spawn: the handle is thread-safe, the first poll is made by the caller
ApplicationAsync_spawn(t) ==
    /\ Alive /\ HandleOut /\ prog = "task" /\ task.st = "none"
    /\ t = OwningThread => (loopState = "running" /\ GuiIdle)
    /\ task' = NewTask("ApplicationAsync", t)
    /\ polling' = polling \cup {t}
    /\ UNCHANGED <<loopState, exitCode, runRet, mode, prog, ready, queue, delivered, nextUnit,
                   unit, chan, crash, wakes, js, win, rt>>

\* waker_wake / waker_wake_by_ref: dispatch ffi_wakeup with the WakerData as token;
\* the result of the dispatch is ignored
waker_wake(t) ==
    /\ Alive /\ task.st # "none" /\ wakes < MaxWakes
    /\ wakes' = wakes + 1
    /\ \/ /\ task.st = "alive"
          /\ queue' = Enqueue("ffi_wakeup", TaskTok, task.handle)
          /\ crash' = crash
       \/ /\ task.st = "released"    \* (*data_ptr).handle of a WakerData that was freed
          /\ \/ /\ queue' = Enqueue("ffi_wakeup", TaskTok, task.handle)
                /\ crash' = crash
             \/ /\ crash' = "ub"
                /\ queue' = queue
    /\ UNCHANGED <<loopState, exitCode, runRet, mode, prog, ready, delivered, nextUnit,
                   unit, chan, task, polling, js, win, rt>>

\* ffi_wakeup, delivered by the event loop
Deliver_wakeup ==
    /\ CanDeliver("ffi_wakeup")
    /\ poll_future_begin(OwningThread)
    /\ queue' = Tail(queue)
    /\ delivered' = delivered \cup {Head(queue)}
    /\ UNCHANGED <<loopState, exitCode, runRet, mode, prog, ready, nextUnit, unit, chan, wakes, js, win, rt>>

\* ---------------------------------------------------------------- native window (abstract)
\* any native call that is handed the window reference
window_ref(w) == [w EXCEPT !.dangling = IF w.freed THEN @ + 1 ELSE @]

\* window_navigate, window_close, window_drop executed on thread th; the
\* backing object goes once the window is closed and a handle was dropped
window_op(w, op, th) ==
    LET w1 == [window_ref(w) EXCEPT !.opsOn = @ \cup {th}]
    IN  CASE op = "close" -> [w1 EXCEPT !.closed = TRUE, !.freed = @ \/ w.drops >= 1]
          [] op = "drop" -> [w1 EXCEPT !.drops = @ + 1, !.freed = @ \/ w.closed]
          [] OTHER -> w1

\* a native call on a reference to a deallocated window may or may not be caught
window_use(w2) ==
    crash' \in IF w2.dangling > win.dangling THEN {crash, "ub"} ELSE {crash}

\* the user closes the visual window
User_closes_window ==
    /\ Alive /\ prog = "win" /\ HandleOut /\ loopState = "running" /\ ~win.closed
    /\ win' = [win EXCEPT !.closed = TRUE, !.freed = @ \/ win.drops >= 1]
    /\ UNCHANGED <<loopState, exitCode, runRet, mode, prog, ready, queue, delivered, nextUnit,
                   unit, chan, crash, task, polling, wakes, js, rt>>

\* ---------------------------------------------------------------- Browser / BrowserThreaded
\* Drop for Browser: `bw_BrowserWindow_drop( self.handle.ffi_handle )`
Drop_Browser(w, th) == [queue |-> queue, win |-> window_op(w, "drop", th)]

\* Drop for BrowserThreaded: `self.app()`, then dispatch of ffi_free_browser_window
Drop_BrowserThreaded_direct(w, th) == [queue |-> queue, win |-> window_op(w, "drop", th)]
Drop_BrowserThreaded(w, th) ==
    [queue |-> Enqueue("ffi_free_browser_window", WinPtr, AppPtr), win |-> window_ref(w)]

\* the handle a callback or dispatch closure was given goes out of scope
Drop_temporary(kind, w, th) ==
    IF kind = "Browser" THEN Drop_Browser(w, th) ELSE Drop_BrowserThreaded(w, th)

CanUse(kind, t) ==
    /\ Alive /\ prog = "win" /\ HandleOut /\ win.held = kind
    /\ kind = "Browser" => (t = OwningThread /\ loopState = "running" /\ GuiIdle)

WinUnchanged ==
    UNCHANGED <<loopState, exitCode, runRet, mode, prog, ready, delivered, nextUnit,
                unit, chan, task, polling, wakes, js, rt>>

Browser_navigate ==
    LET w == window_op([win EXCEPT !.ops = @ + 1], "navigate", OwningThread)
    IN  /\ CanUse("Browser", OwningThread) /\ win.ops < MaxWinOps
        /\ win' = w /\ window_use(w)
        /\ queue' = queue
        /\ WinUnchanged

\* Browser::close( self ): window_close, then self goes out of scope
Browser_close ==
    LET d == Drop_Browser(window_op(win, "close", OwningThread), OwningThread)
        w == [d.win EXCEPT !.held = "none", !.released = @ + 1]
    IN  /\ CanUse("Browser", OwningThread)
        /\ win' = w /\ window_use(w)
        /\ queue' = d.queue
        /\ WinUnchanged

\* the caller lets go of its handle
Browser_drop ==
    LET d == Drop_Browser(win, OwningThread)
        w == [d.win EXCEPT !.held = "none", !.released = @ + 1]
    IN  /\ CanUse("Browser", OwningThread)
        /\ win' = w /\ window_use(w)
        /\ queue' = d.queue
        /\ WinUnchanged

\* Browser::exec_js: _eval_js with the closure |_,_|{}
Browser_exec_js ==
    LET w == window_ref([win EXCEPT !.ops = @ + 1, !.cbs = @ + 1])
    IN  /\ CanUse("Browser", OwningThread) /\ win.ops < MaxWinOps
        /\ win' = w /\ window_use(w)
        /\ queue' = queue
        /\ WinUnchanged

\* ffi_eval_js_callback for exec_js: the closure is handed `handle.into()`
exec_js_callback ==
    LET d == Drop_temporary("Browser", [win EXCEPT !.cbs = @ - 1], OwningThread)
    IN  /\ Alive /\ prog = "win" /\ loopState = "running" /\ win.cbs > 0 /\ ~win.freed
        /\ win' = d.win /\ window_use(d.win)
        /\ queue' = d.queue
        /\ WinUnchanged

\* BrowserThreaded::navigate: dispatch of |bw| bw.navigate( url )
BrowserThreaded_navigate(t) ==
    LET w == window_ref([win EXCEPT !.ops = @ + 1, !.from = @ \cup {t}])
    IN  /\ CanUse("BrowserThreaded", t) /\ win.ops < MaxWinOps
        /\ win' = w /\ window_use(w)
        /\ queue' = Enqueue("dispatch_navigate", WinPtr, AppPtr)
        /\ WinUnchanged

\* the closure of BrowserThreaded::dispatch on the owning thread:
\* `func( handle.into() )` with func = |bw| bw.navigate( url )
Deliver_dispatch_navigate ==
    LET d == Drop_temporary("Browser", window_op(win, "navigate", OwningThread), OwningThread)
    IN  /\ CanDeliver("dispatch_navigate")
        /\ win' = d.win /\ window_use(d.win)
        /\ queue' = Tail(queue)
        /\ delivered' = delivered \cup {Head(queue)}
        /\ UNCHANGED <<loopState, exitCode, runRet, mode, prog, ready, nextUnit,
                       unit, chan, task, polling, wakes, js, rt>>

\* BrowserThreaded::close( self ) up to the await: dispatch of |bw| bw.close()
BrowserThreaded_close(t) ==
    LET accepted == DispatchResult(cbw_Application_dispatch("dispatch_close", WinPtr, AppPtr))
        w == window_ref([win EXCEPT !.held = "closing", !.from = @ \cup {t},
                                    !.closing = IF accepted THEN "queued" ELSE "rejected"])
    IN  /\ CanUse("BrowserThreaded", t)
        /\ win' = w /\ window_use(w)
        /\ queue' = Enqueue("dispatch_close", WinPtr, AppPtr)
        /\ WinUnchanged

\* `func( handle.into() )` with func = |bw| bw.close(): Browser::close( self )
Deliver_dispatch_close ==
    LET d == Drop_Browser(window_op(win, "close", OwningThread), OwningThread)
    IN  /\ CanDeliver("dispatch_close")
        /\ win' = [d.win EXCEPT !.closing = "ran"] /\ window_use(d.win)
        /\ queue' = Tail(queue)
        /\ delivered' = delivered \cup {Head(queue)}
        /\ UNCHANGED <<loopState, exitCode, runRet, mode, prog, ready, nextUnit,
                       unit, chan, task, polling, wakes, js, rt>>

\* BrowserThreaded::close( self ) after the await: self goes out of scope
BrowserThreaded_close_resume(t) ==
    LET d == Drop_BrowserThreaded(win, t)
        w == [d.win EXCEPT !.held = "none", !.closing = "done", !.released = @ + 1]
    IN  /\ Alive /\ prog = "win" /\ win.held = "closing" /\ win.closing \in {"ran", "rejected"}
        /\ win' = w /\ window_use(w)
        /\ queue' = d.queue
        /\ WinUnchanged

\* the caller lets go of its BrowserThreaded
BrowserThreaded_drop(t) ==
    LET d == Drop_BrowserThreaded([win EXCEPT !.from = @ \cup {t}], t)
        w == [d.win EXCEPT !.held = "none", !.released = @ + 1]
    IN  /\ CanUse("BrowserThreaded", t)
        /\ win' = w /\ window_use(w)
        /\ queue' = d.queue
        /\ WinUnchanged

\* ffi_free_browser_window, delivered by the event loop
Deliver_free ==
    LET w == window_op(win, "drop", OwningThread)
    IN  /\ CanDeliver("ffi_free_browser_window")
        /\ win' = w /\ window_use(w)
        /\ queue' = Tail(queue)
        /\ delivered' = delivered \cup {Head(queue)}
        /\ UNCHANGED <<loopState, exitCode, runRet, mode, prog, ready, nextUnit,
                       unit, chan, task, polling, wakes, js, rt>>

\* ---------------------------------------------------------------- eval_js
CBufs == UNION {[1..n -> Bytes] : n \in 0..MaxStrLen}
Errs == {NullErr} \cup [null : {FALSE}, code : ErrCodes, data : ErrData]

\* CStr::from_ptr: the bytes up to the first NUL
RECURSIVE CStr_from_ptr(_)
CStr_from_ptr(buf) ==
    IF buf = <<>> \/ Head(buf) = 0 THEN <<>>
    ELSE <<Head(buf)>> \o CStr_from_ptr(Tail(buf))

\* to_string_lossy: a byte that is not valid UTF-8 becomes U+FFFD
to_string_lossy(bytes) ==
    [i \in 1..Len(bytes) |-> IF bytes[i] < 128 THEN bytes[i] ELSE ReplacementChar]

\* (*err).alloc_message( code, data ): the message the native layer materializes
alloc_message(code, data) == <<48 + code, data>>

JsEvaluationError_new(err) ==
    to_string_lossy(CStr_from_ptr(alloc_message(err.code, err.data)))

ffi_eval_js_callback_result_swapped(result, error) ==
    IF ~error.null
    THEN [tag |-> "Ok", s |-> to_string_lossy(CStr_from_ptr(result))]
    ELSE [tag |-> "Err", s |-> JsEvaluationError_new(error)]
ffi_eval_js_callback_result(result, error) ==
    IF error.null
    THEN [tag |-> "Ok", s |-> to_string_lossy(CStr_from_ptr(result))]
    ELSE [tag |-> "Err", s |-> JsEvaluationError_new(error)]

\* eval_js up to `rx.await`: channel, boxed closure holding tx, native evalJs
eval_js(api, t) ==
    /\ Alive /\ HandleOut /\ prog = "js" /\ js.st = "none"
    /\ api = win.held
    /\ api = "Browser" => (t = OwningThread /\ loopState = "running" /\ GuiIdle)
    /\ js' = [js EXCEPT !.st = "pending", !.api = api, !.cb = "alloc", !.tx = "boxed",
                        !.rx = "alive", !.caller = "awaiting"]
    /\ UNCHANGED <<loopState, exitCode, runRet, mode, prog, ready, queue, delivered, nextUnit,
                   unit, chan, crash, task, polling, wakes, win, rt>>

\* ffi_eval_js_callback / ffi_eval_js_threaded_callback with the closure of eval_js,
\* invoked by the native layer on thread th
ffi_eval_js_callback(th, result, error) ==
    LET result_val == ffi_eval_js_callback_result(result, error)
        \* the closure's `_` argument, `handle.into()`, goes out of scope
        d == Drop_temporary(js.api, win, th)
    IN  /\ Alive /\ js.st = "pending" /\ loopState = "running"
        /\ js.api = "Browser" => (th = OwningThread /\ GuiIdle)
        /\ js' = [js EXCEPT !.st = "done", !.cb = "freed", !.cbFrees = @ + 1,
                            !.result = result, !.error = error, !.val = result_val,
                            !.tx = IF js.rx = "alive" THEN "sent" ELSE "failed",
                            !.writes = IF js.rx = "alive" THEN @ + 1 ELSE @]
        \* tx.send( result ) fails when the receiver is gone: panic!
        /\ crash' = IF js.rx = "alive" THEN crash ELSE "panic"
        /\ win' = IF js.rx = "alive" THEN d.win ELSE win
        /\ queue' = IF js.rx = "alive" THEN d.queue ELSE queue
        /\ UNCHANGED <<loopState, exitCode, runRet, mode, prog, ready, delivered, nextUnit,
                       unit, chan, task, polling, wakes, rt>>

\* `rx.await.unwrap()` once the value is there
eval_js_resume ==
    /\ Alive /\ js.caller = "awaiting" /\ js.tx = "sent"
    /\ js' = [js EXCEPT !.caller = "returned", !.out = js.val, !.reads = @ + 1]
    /\ UNCHANGED <<loopState, exitCode, runRet, mode, prog, ready, queue, delivered, nextUnit,
                   unit, chan, crash, task, polling, wakes, win, rt>>

\* the caller drops the future of eval_js while it is suspended at `rx.await`
eval_js_drop ==
    /\ Alive /\ js.caller = "awaiting"
    /\ js' = [js EXCEPT !.caller = "dropped", !.rx = "dropped"]
    /\ UNCHANGED <<loopState, exitCode, runRet, mode, prog, ready, queue, delivered, nextUnit,
                   unit, chan, crash, task, polling, wakes, win, rt>>

\* ---------------------------------------------------------------- specifications
Next ==
    \/ Runtime_run_call
    \/ ffi_ready_handler
    \/ \E t \in Threads, c \in ExitCodes : Application_exit(t, c)
    \/ bw_Application_run_returns
    \/ Runtime_run_finish
    \/ Runtime_run_return
    \/ \E t \in Threads, k \in {"plain", "await"}, v \in Values : ApplicationImpl_dispatch(t, k, v)
    \/ Deliver_invocation
    \/ \E u \in Units : DispatchFuture_poll(u)
    \/ \E u \in Units : DispatchFuture_drop(u)
    \/ Application_spawn
    \/ \E t \in Threads : ApplicationAsync_spawn(t)
    \/ \E t \in Threads, r \in {"Ready", "Pending"} : poll_future_end(t, r)
    \/ \E t \in Threads : waker_wake(t)
    \/ Deliver_wakeup
    \/ \E t \in Threads, api \in {"Browser", "BrowserThreaded"} : eval_js(api, t)
    \/ \E th \in Threads, b \in CBufs, e \in Errs : ffi_eval_js_callback(th, b, e)
    \/ eval_js_resume
    \/ eval_js_drop
    \/ User_closes_window
    \/ Browser_navigate
    \/ Browser_close
    \/ Browser_drop
    \/ Browser_exec_js
    \/ exec_js_callback
    \/ \E t \in Threads : BrowserThreaded_navigate(t)
    \/ Deliver_dispatch_navigate
    \/ \E t \in Threads : BrowserThreaded_close(t)
    \/ Deliver_dispatch_close
    \/ \E t \in Threads : BrowserThreaded_close_resume(t)
    \/ \E t \in Threads : BrowserThreaded_drop(t)
    \/ Deliver_free

Spec == Init /\ [][Next]_vars

NextRedeliver == Next \/ Redeliver_invocation

SpecRedeliver == Init /\ [][NextRedeliver]_vars

\* the scheduling of the event loop: it keeps delivering while it runs, a
\* requested exit makes run return, and a suspended caller is resumed once its
\* channel has something for it
Fairness ==
    /\ WF_vars(ffi_ready_handler)
    /\ WF_vars(Deliver_invocation)
    /\ WF_vars(Deliver_wakeup)
    /\ WF_vars(Deliver_dispatch_navigate)
    /\ WF_vars(Deliver_dispatch_close)
    /\ WF_vars(Deliver_free)
    /\ WF_vars(bw_Application_run_returns)
    /\ WF_vars(Runtime_run_finish)
    /\ WF_vars(Runtime_run_return)
    /\ \A t \in Threads : WF_vars(\E r \in {"Ready", "Pending"} : poll_future_end(t, r))
    /\ \A u \in Units : WF_vars(DispatchFuture_poll(u))
    /\ WF_vars(eval_js_resume)

FairSpec == Spec /\ Fairness

\* ---------------------------------------------------------------- properties
\* what the native layer did with the token of unit u
InQueue(fn, tok) == \E i \in 1..Len(queue) : queue[i].fn = fn /\ queue[i].tok = tok
WasDelivered(fn, tok) == \E e \in delivered : e.fn = fn /\ e.tok = tok
NativeAccepted(u) == InQueue("invocation_handler", u) \/ WasDelivered("invocation_handler", u)
Dispatched(u) == unit[u].box # "none"
NativeRejected(u) == Dispatched(u) /\ ~NativeAccepted(u)

\* C1 as stated: once the program is over, every closure whose scheduling was
\* accepted has been executed exactly once, on the owning thread, with a
\* handle to the engine it was scheduled on.
C1_ExactlyOnce ==
    loopState = "finished" =>
        \A u \in Units : NativeAccepted(u) =>
            /\ unit[u].runs = 1
            /\ unit[u].ranOn = {OwningThread}
            /\ unit[u].handle = {AppPtr}

\* C1 amended: a closure whose scheduling was accepted is executed at most
\* once, and exactly once when its token has been delivered; it never runs
\* when the scheduling was rejected; every execution is on the owning thread,
\* whichever thread called dispatch, and with a handle to the same engine.
C1_AtMostOnce ==
    \A u \in Units :
        /\ unit[u].runs <= 1
        /\ WasDelivered("invocation_handler", u) <=> unit[u].runs = 1
        /\ unit[u].runs = 1 => /\ NativeAccepted(u)
                                /\ unit[u].ranOn = {OwningThread}
                                /\ unit[u].handle = {AppPtr}

C1_Witness ==
    \E u \in Units : unit[u].from = "t1" /\ unit[u].runs = 1 /\ unit[u].ranOn = {OwningThread}

\* C5: a call of dispatch returns without the closure having run, and returns
\* true exactly when the native layer accepted the scheduling (the token is
\* in the native queue); a rejected closure is never invoked and the
\* rejection does not crash the process.
C5_DispatchStep ==
    nextUnit' # nextUnit =>
        LET u == nextUnit
        IN  /\ unit'[u].ret = (\E i \in 1..Len(queue') : queue'[i].tok = u)
            /\ unit'[u].ret = (loopState = "running")
            /\ unit'[u].runs = 0
            /\ crash' = crash

C5_RejectedNeverRuns ==
    \A u \in Units : Dispatched(u) =>
        /\ unit[u].ret = NativeAccepted(u)
        /\ unit[u].ret = FALSE => unit[u].runs = 0 /\ unit[u].calls = 0

C5_DispatchResult == []C5_RejectedNeverRuns /\ [][C5_DispatchStep]_vars

C5_Witness ==
    \E u, w \in Units : /\ Dispatched(u) /\ Dispatched(w)
                         /\ unit[u].ret = TRUE /\ unit[u].runs = 1
                         /\ unit[w].ret = FALSE /\ loopState = "finished"

\* C6 as stated: once the event loop has finished no DispatchData box is
\* still allocated: every box was freed, whether its token was delivered,
\* rejected or never delivered.
C6_NoUnitLeftAllocated ==
    loopState = "finished" => \A u \in Units : unit[u].box # "alloc"

\* C7 as stated: whatever number of times the native layer invokes the
\* trampoline with one token, the closure runs at most once and the box is
\* freed at most once, and exactly once when the trampoline was invoked.
C7_OnceWhateverTheDeliveries ==
    \A u \in Units :
        /\ unit[u].runs <= 1
        /\ unit[u].frees <= 1
        /\ unit[u].calls >= 1 => unit[u].frees = 1 /\ unit[u].runs = 1

\* C2 as stated: at most one poll of the task's future is in flight.
C2_OnePollInFlight == Cardinality(polling) <= 1

\* C3 as stated: the WakerData is released at most once, only by a poll that
\* reported completion, and once it is released no re-poll with its token is
\* pending in the native queue or executing, and no poll or wake has read it.
C3_ReleasedNeverRead ==
    /\ task.frees <= 1
    /\ task.stale = 0
    /\ crash # "ub"
    /\ task.st = "released" => /\ ~InQueue("ffi_wakeup", TaskTok)
                                /\ polling = {}

\* C4: the future of a dispatch-and-await call resolves only after its
\* closure ran on the owning thread and then with the value the closure
\* returned; once the closure ran, a caller that is still awaiting finds the
\* value in its channel; when the native layer rejected the scheduling the
\* channel is disconnected, the future never resolves with a value, and
\* the awaiting caller eventually observes the failure.
C4_ResolvesIffRan ==
    \A u \in Units : unit[u].func = "await" =>
        /\ chan[u].rx = "resolved" => /\ unit[u].runs = 1
                                       /\ unit[u].ranOn = {OwningThread}
                                       /\ chan[u].got = unit[u].data
        /\ (unit[u].runs >= 1 /\ chan[u].rx = "awaiting") =>
               (chan[u].st = "sent" /\ chan[u].val = unit[u].data)
        /\ unit[u].runs = 0 => chan[u].st # "sent"
        /\ NativeRejected(u) => chan[u].st = "closed" /\ chan[u].rx # "resolved"

C4_RejectedFails ==
    \A u \in Units :
        (unit[u].func = "await" /\ NativeRejected(u) /\ chan[u].rx = "awaiting")
            ~> (chan[u].rx \in {"failed", "dropped"})

C8_OkXorErr ==
    js.st = "done" =>
        /\ js.val.tag \in {"Ok", "Err"}
        /\ js.error.null =>
               /\ js.val.tag = "Ok"
               /\ js.val.s = to_string_lossy(CStr_from_ptr(js.result))
        /\ ~js.error.null =>
               /\ js.val.tag = "Err"
               /\ js.val.s = to_string_lossy(alloc_message(js.error.code, js.error.data))
        /\ js.caller = "returned" => js.out = js.val

C8_Witness ==
    /\ js.st = "done" /\ js.caller = "returned"
    /\ ~js.error.null /\ js.result # <<>> /\ js.out.tag = "Err"

\* C9 as stated: when the future of eval_js was dropped before it resolved
\* and the native callback is delivered afterwards, the callback returns
\* normally: its box is reclaimed once and no panic is raised.
C9_DropTolerated ==
    (js.caller = "dropped" /\ js.st = "done") => (crash = "none" /\ js.cbFrees = 1)

\* C10 as stated: the channel of eval_js is written at most once and read
\* at most once, and a caller that is still awaiting when the engine has
\* shut down without delivering the callback does not wait forever.
C10_NoHang ==
    /\ [](js.writes <= 1 /\ js.reads <= 1)
    /\ (js.caller = "awaiting" /\ js.st = "pending" /\ loopState = "finished")
            ~> (js.caller # "awaiting")

\* C11 as stated: once exit or the thread-safe exit has been called with code
\* c while run is blocked in the event loop, run eventually returns; it
\* returns once and the value it returns is c.
C11_RunReturnsExitCode ==
    /\ [](rt.returns <= 1 /\ (runRet # <<>> => runRet = <<exitCode>>))
    /\ \A c \in ExitCodes :
          (loopState = "exiting" /\ exitCode = c) ~> (runRet = <<c>>)

\* C18: on_ready is invoked at most once, on the owning thread, while the
\* native run executes; finish is called at most once, only after the native
\* run has returned, and exactly once by the time run has returned to its
\* caller; the value run returns is the exit code the native run produced.
C18_RunOrder ==
    /\ rt.readyRuns <= 1
    /\ rt.readyOn \subseteq {OwningThread}
    /\ rt.readyIn \subseteq {"running"}
    /\ rt.finishCalls <= 1
    /\ rt.finishIn \subseteq {"returned"}
    /\ rt.finishCalls = 1 <=> loopState = "finished"
    /\ rt.returns <= 1
    /\ runRet # <<>> => /\ rt.finishCalls = 1
                         /\ rt.readyRuns = 1
                         /\ runRet = <<exitCode>>

C18_Witness ==
    /\ mode = "spawn" /\ runRet = <<3>> /\ rt.readyRuns = 1 /\ rt.finishCalls = 1

\* C14 as stated: every poll of the task's future, the first one and every
\* re-poll, executes on the owning thread.
C14_PollsOnOwningThread == task.polledOn \subseteq {OwningThread}

\* C17 as stated: a call of wake attempts one re-dispatch of ffi_wakeup and
\* changes nothing else; when the event loop is not running the dispatch is
\* rejected and nothing is queued; the call returns without a crash.
C17_WakeStep ==
    wakes' # wakes =>
        /\ queue' = IF loopState = "running"
                    THEN Append(queue, [fn |-> "ffi_wakeup", tok |-> TaskTok, app |-> AppPtr])
                    ELSE queue
        /\ crash' = crash
        /\ task' = task /\ polling' = polling

C17_WakeRedispatches == [][C17_WakeStep]_vars

\* ---------------------------------------------------------------- a future that is driven
\* the future is woken once after each poll that returned Pending, and it
\* returns Pending only a bounded number of times
Driven_wake(t) ==
    /\ task.st = "alive" /\ polling = {}
    /\ ~InQueue("ffi_wakeup", TaskTok)
    /\ wakes < task.polls
    /\ waker_wake(t)

Driven_poll_end(t, r) ==
    /\ r = "Pending" => task.polls <= MaxWakes
    /\ poll_future_end(t, r)

\* the event loop keeps running: nobody calls exit
NextDriven ==
    \/ Runtime_run_call
    \/ ffi_ready_handler
    \/ \E t \in Threads, k \in {"plain", "await"}, v \in Values : ApplicationImpl_dispatch(t, k, v)
    \/ Deliver_invocation
    \/ \E u \in Units : DispatchFuture_poll(u)
    \/ \E u \in Units : DispatchFuture_drop(u)
    \/ Application_spawn
    \/ \E t \in Threads : ApplicationAsync_spawn(t)
    \/ \E t \in Threads, r \in {"Ready", "Pending"} : Driven_poll_end(t, r)
    \/ \E t \in Threads : Driven_wake(t)
    \/ Deliver_wakeup

FairnessDriven ==
    /\ WF_vars(ffi_ready_handler)
    /\ WF_vars(Deliver_invocation)
    /\ WF_vars(Deliver_wakeup)
    /\ WF_vars(\E t \in Threads : Driven_wake(t))
    /\ \A t \in Threads : WF_vars(\E r \in {"Ready", "Pending"} : Driven_poll_end(t, r))

SpecDriven == Init /\ [][NextDriven]_vars /\ FairnessDriven

\* C16: when the event loop keeps running and delivers what it accepted, and
\* the future is woken once after each poll that returned Pending and is
\* ready after finitely many polls, a spawned task is polled to completion
\* and its WakerData is released, once, with no poll left in flight.
C16_DrivenToCompletion ==
    /\ [](task.frees <= 1 /\ task.stale = 0)
    /\ (task.st = "alive") ~> (task.st = "released" /\ task.frees = 1 /\ polling = {})

C16_Witness ==
    /\ task.st = "released" /\ task.spawn = "ApplicationAsync" /\ task.polls >= 3
    /\ "t1" \in task.polledOn

\* C12 as stated: the window's backing object is deallocated only when the
\* window has been closed and the caller has let go of its handle; it is
\* never deallocated while the caller still holds a Browser or a
\* BrowserThreaded.
C12_FreedOnlyWhenReleased ==
    win.freed => (win.closed /\ win.held \notin {"Browser", "BrowserThreaded"})

\* C13 as stated: no operation issued through a handle, whether the window
\* is open, closed or destroyed, reaches the native layer with a reference
\* to a deallocated window.
C13_NoDanglingUse == win.dangling = 0

\* C15: navigate, close and drop of the native window are executed on the
\* owning thread only, whichever thread called the thread-safe facade or
\* ran the eval_js callback.
C15_AffineOpsOnOwningThread == win.opsOn \subseteq {OwningThread}

C15_Witness ==
    /\ "t1" \in win.from /\ win.closing = "done" /\ win.drops >= 2
    /\ win.opsOn = {OwningThread}

\* C19 as stated: the native window_drop calls issued never outnumber the
\* handles the caller has released.
C19_DropsWithinReleases == win.drops <= win.released

====
